---------------------------- MODULE Spec2Model ----------------------------
(***************************************************************************)
(* A model of dtrudg/oci-tools:                                            *)
(*   pkg/sif/update.go    Update: reconcile the OCI blobs of a SIF with a  *)
(*                        target image index                               *)
(*   pkg/mutate/image.go  image: a lazily computed, memoized image under   *)
(*                        layer overrides                                  *)
(* Spec is the Update machine, LazySpec one lazy image and its caller,     *)
(* ConcSpec one lazy image called by several goroutines, ShareSpec two     *)
(* lazy images over one base image.                                        *)
(***************************************************************************)
EXTENDS Integers, Sequences, FiniteSets, TLC

VARIABLES
    \* ---- pkg/sif: the SIF (fi) ----
    sifBlobObjs,    \* the DataOCIBlob descriptors of fi, in descriptor order (their digests)
    sifRoot,        \* the digest of the DataOCIRootIndex object of fi, or None
    \* ---- pkg/sif: one Update call ----
    pc,             \* position in Update
    ii,             \* the target image index (by digest)
    sifBlobs,       \* local sifBlobs (line 70)
    blobCacheExists,\* the directory blobCache exists
    cacheFiles,     \* the file names (digests) in blobCache
    staged,         \* the digests passed to writeCacheBlob so far, in order
    cachedBlobs,    \* local cachedBlobs (line 83)
    keepBlobs,      \* local keepBlobs (line 83)
    ri,             \* local ri (line 89)
    descs,          \* local descs of deleteBlobsExcept (line 315)
    delIdx,         \* loop position in deleteBlobsExcept
    addIdx,         \* loop position in Update's loop over cachedBlobs
    result,         \* what the last call returned: "none", "ok", "err"
    errPhase,       \* where the last call failed
    \* ---- history of the calls ----
    calls,          \* number of Update calls started
    blobs0,         \* sifBlobObjs when the current call started
    root0,          \* sifRoot when the current call started
    mutLog,         \* the store mutations of the current call, in order
    dirCreated,     \* the current call created blobCache
    prevTarget,     \* ii of the previous call
    prevResult,     \* result of the previous call
    prevLog,        \* mutLog of the previous call
    \* ---- pkg/mutate: one lazy image and its caller ----
    base,           \* img.base: the base image (config file, manifest, layers)
    overrides,      \* img.overrides
    history,        \* img.history, or NoHistory
    img,            \* the memoized fields: computed, diffIDs, byDiffID, byDigest,
                    \* manifest, configFile
    lastCall,       \* the accessor last called, with its argument
    lastResult,     \* what it returned: a value and an error
    baseCalls,      \* number of calls of base.ConfigFile, base.Manifest and
                    \* base.Layers made by the accessor last called
    lpc,            \* the caller: "idle", or "read" inside an accessor after populate
    everFailed,     \* a compute pass has failed
    \* ---- pkg/mutate: goroutines that call accessors of img concurrently ----
    cpc,            \* where each goroutine is inside its accessor
    ccall,          \* the accessor each goroutine called last
    cres,           \* what that accessor returned to it
    cerr,           \* the error populate is about to return to it
    mutex,          \* the goroutine that holds img's sync.Mutex, or NoOne
    pend,           \* the locals of the running pass (manifest, configFile, ...)
    nSuccess,       \* number of passes that have run to line 114
    \* ---- pkg/mutate: a second lazy image over the same base ----
    img2,           \* its memoized fields
    overrides2,     \* its overrides
    history2,       \* its history
    base0           \* the base image as it was when the lazy images were built

vars == << sifBlobObjs, sifRoot, pc, ii, sifBlobs, blobCacheExists, cacheFiles,
           staged, cachedBlobs, keepBlobs, ri, descs, delIdx, addIdx, result,
           errPhase, calls, blobs0, root0, mutLog, dirCreated, prevTarget,
           prevResult, prevLog, base, overrides, history, img, lastCall,
           lastResult, baseCalls, lpc, everFailed, cpc, ccall, cres, cerr, mutex,
           pend, nSuccess, img2, overrides2, history2, base0 >>

\* The variables of the goroutines that share one lazy image.
concVars == << cpc, ccall, cres, cerr, mutex, pend, nSuccess >>

\* The variables of the second lazy image.
shareVars == << img2, overrides2, history2, base0 >>

\* The variables of the one caller of the lazy image.
seqVars == << lastCall, lastResult, baseCalls, lpc, everFailed >>

\* The variables of the lazy images, which Update leaves alone.
lazyVars == << base, overrides, history, img, lastCall, lastResult, baseCalls, lpc,
              everFailed, concVars, shareVars >>

\* The variables of the SIF and of Update, which the lazy image leaves alone.
updateVars == << sifBlobObjs, sifRoot, pc, ii, sifBlobs, blobCacheExists, cacheFiles,
                 staged, cachedBlobs, keepBlobs, ri, descs, delIdx, addIdx, result,
                 errPhase, calls, blobs0, root0, mutLog, dirCreated, prevTarget,
                 prevResult, prevLog >>

callVars == << ii, calls, blobs0, root0, prevTarget, prevResult, prevLog >>

-----------------------------------------------------------------------------
\* Bounds of the model.

\* Number of Update calls in one behaviour.
MaxCalls == 2

\* Number of blobs no index references that the initial SIF may hold.
MaxStale == 1

-----------------------------------------------------------------------------
\* Sequences.

None == "none"

SeqToSet(s) == { s[i] : i \in DOMAIN s }

\* slices.Contains
Contains(s, d) == \E i \in DOMAIN s : s[i] = d

RemoveAt(s, i) == SubSeq(s, 1, i - 1) \o SubSeq(s, i + 1, Len(s))

Count(s, d) == Cardinality({ i \in DOMAIN s : s[i] = d })

-----------------------------------------------------------------------------
\* The content the digests address. A digest determines its content, so the
\* children of an index or an image are a function of its digest.

DockerManifestList    == "application/vnd.docker.distribution.manifest.list.v2+json"
OCIImageIndex         == "application/vnd.oci.image.index.v1+json"
DockerManifestSchema2 == "application/vnd.docker.distribution.manifest.v2+json"
OCIManifestSchema1    == "application/vnd.oci.image.manifest.v1+json"
OtherMediaType        == "application/vnd.example.artifact"

Descriptor(mt, d) == [MediaType |-> mt, Digest |-> d]

\* im.Layers(): the layer digests of an image, in manifest order.
ImageLayers(im) ==
    CASE im = "M1" -> << "L1" >>
      [] im = "M2" -> << "L1", "L2", "L2" >>
      [] OTHER     -> << >>

\* im.Manifest().Config.Digest
ImageConfig(im) ==
    CASE im = "M1" -> "K1"
      [] im = "M2" -> "K2"
      [] OTHER     -> "K1"

\* ii.IndexManifest().Manifests
IndexManifests(ix) ==
    CASE ix = "R1" -> << Descriptor(OCIManifestSchema1, "M1") >>
      [] ix = "R2" -> << Descriptor(OCIImageIndex, "E1"),
                         Descriptor(DockerManifestSchema2, "M2") >>
      [] ix = "R3" -> << Descriptor(OCIImageIndex, "E1"),
                         Descriptor(DockerManifestList, "E2") >>
      [] ix = "R4" -> << Descriptor(OtherMediaType, "X1") >>
      [] ix = "E1" -> << Descriptor(OCIManifestSchema1, "M1"),
                         Descriptor(OtherMediaType, "X1") >>
      [] ix = "E2" -> << Descriptor(OCIManifestSchema1, "M1") >>
      [] OTHER     -> << >>

\* The digests reachable from an image index: its nested indices, image
\* manifests, their layers and configs, and the other blobs it lists.
RECURSIVE ReachableFrom(_)
ReachableFrom(ix) ==
    UNION { {desc.Digest} \cup
            ( CASE desc.MediaType \in {DockerManifestList, OCIImageIndex} ->
                     ReachableFrom(desc.Digest)
                [] desc.MediaType \in {DockerManifestSchema2, OCIManifestSchema1} ->
                     SeqToSet(ImageLayers(desc.Digest)) \cup {ImageConfig(desc.Digest)}
                [] OTHER -> {} )
            : desc \in SeqToSet(IndexManifests(ix)) }

\* The image indices Update is called with, and the root indices a SIF starts with.
Targets == { "R1", "R2", "R3", "R4" }

StaleNames == << "A", "C", "D", "F" >>

StaleDigests == { StaleNames[i] : i \in 1..MaxStale }

\* A fixed order of all digests, for writing a set of blobs as a descriptor list.
DigestOrder == << "L1", "L2", "K1", "K2", "M1", "M2", "X1", "E1", "E2" >> \o StaleNames

SetToSeq(S) == SelectSeq(DigestOrder, LAMBDA d : d \in S)

-----------------------------------------------------------------------------
\* cacheImageBlobs and cacheIndexBlobs: the lists of digests written to the
\* cache and of those skipped, in the order the code appends them.

NoBlobs == [cached |-> << >>, skipped |-> << >>]

\* One digest of the walk: skipped when the SIF has it, written to the cache
\* and appended to cached otherwise.
CacheOrSkip(acc, skipDigests, d) ==
    IF Contains(skipDigests, d)
    THEN [acc EXCEPT !.skipped = Append(@, d)]
    ELSE [acc EXCEPT !.cached = Append(@, d)]

\* cacheImageBlobs without lines 257-275: the config is never cached.
cacheImageBlobs_NoConfig(im, skipDigests) ==
    LET layers == ImageLayers(im)
        loop[i \in 0..Len(layers)] ==
            IF i = 0 THEN NoBlobs
            ELSE CacheOrSkip(loop[i - 1], skipDigests, layers[i])
    IN  loop[Len(layers)]

\* cacheImageBlobs with the config handled before the layers.
cacheImageBlobs_ConfigFirst(im, skipDigests) ==
    LET layers == ImageLayers(im)
        loop[i \in 0..Len(layers)] ==
            IF i = 0 THEN CacheOrSkip(NoBlobs, skipDigests, ImageConfig(im))
            ELSE CacheOrSkip(loop[i - 1], skipDigests, layers[i])
    IN  loop[Len(layers)]

\* Lines 230-278: the layers in the order of im.Layers(), then the config.
cacheImageBlobs(im, skipDigests) ==
    LET layers == ImageLayers(im)
        loop[i \in 0..Len(layers)] ==
            IF i = 0 THEN NoBlobs
            ELSE CacheOrSkip(loop[i - 1], skipDigests, layers[i])
    IN  CacheOrSkip(loop[Len(layers)], skipDigests, ImageConfig(im))

RECURSIVE cacheIndexBlobs(_, _)
cacheIndexBlobs(ix, skipDigests) ==
    LET manifests == IndexManifests(ix)
        merge(acc, child) == [cached  |-> acc.cached \o child.cached,
                              skipped |-> acc.skipped \o child.skipped]
        loop[i \in 0..Len(manifests)] ==
            IF i = 0 THEN NoBlobs
            ELSE LET acc  == loop[i - 1]
                     desc == manifests[i]
                 IN  CASE desc.MediaType \in {DockerManifestList, OCIImageIndex} ->
                            CacheOrSkip(merge(acc, cacheIndexBlobs(desc.Digest, skipDigests)),
                                        skipDigests, desc.Digest)
                       [] desc.MediaType \in {DockerManifestSchema2, OCIManifestSchema1} ->
                            CacheOrSkip(merge(acc, cacheImageBlobs(desc.Digest, skipDigests)),
                                        skipDigests, desc.Digest)
                       [] OTHER ->
                            CacheOrSkip(acc, skipDigests, desc.Digest)
    IN  loop[Len(manifests)]

-----------------------------------------------------------------------------
\* Update.

\* Return with the removal of blobCache on the success path only.
Return_NoCleanup(res, phase) ==
    /\ pc' = "done"
    /\ result' = res
    /\ errPhase' = phase
    /\ blobCacheExists' = IF res = "ok" THEN FALSE ELSE blobCacheExists
    /\ cacheFiles' = IF res = "ok" THEN {} ELSE cacheFiles

\* A return of Update: the deferred os.RemoveAll(blobCache) runs when the
\* directory was created.
Return(res, phase) ==
    /\ pc' = "done"
    /\ result' = res
    /\ errPhase' = phase
    /\ blobCacheExists' = FALSE
    /\ cacheFiles' = {}

\* f.writeBlobToFileImage(rc, false): a new DataOCIBlob object.
writeBlob(objs, d) == Append(objs, d)

\* The caller calls Update(fi, t).
Call(t) ==
    /\ pc \in {"idle", "done"}
    /\ calls < MaxCalls
    /\ pc' = "opts"
    /\ ii' = t
    /\ calls' = calls + 1
    /\ blobs0' = sifBlobObjs
    /\ root0' = sifRoot
    /\ prevTarget' = ii
    /\ prevResult' = result
    /\ prevLog' = mutLog
    /\ result' = "none"
    /\ errPhase' = None
    /\ sifBlobs' = << >>
    /\ staged' = << >>
    /\ cachedBlobs' = << >>
    /\ keepBlobs' = << >>
    /\ ri' = None
    /\ descs' = << >>
    /\ delIdx' = 0
    /\ addIdx' = 0
    /\ mutLog' = << >>
    /\ dirCreated' = FALSE
    /\ UNCHANGED << sifBlobObjs, sifRoot, blobCacheExists, cacheFiles >>
    /\ UNCHANGED lazyVars

\* Lines 45-50: the options.
Options ==
    /\ pc = "opts"
    /\ \E ok \in BOOLEAN :
          IF ok
          THEN /\ pc' = "compare"
               /\ UNCHANGED << result, errPhase, blobCacheExists, cacheFiles >>
          ELSE Return("err", "opts")
    /\ UNCHANGED << sifBlobObjs, sifRoot, sifBlobs, staged, cachedBlobs, keepBlobs,
                    ri, descs, delIdx, addIdx, mutLog, dirCreated >>
    /\ UNCHANGED << callVars, lazyVars >>

\* The comparison that never finds the digests equal.
SameRoot_Never(sifRootDigest, newRootDigest) == FALSE

\* Line 65: sifRootDigest == newRootDigest.
SameRoot(sifRootDigest, newRootDigest) == sifRootDigest = newRootDigest

\* Lines 52-67: nothing to do when the RootIndex of the SIF matches ii.
\* ImageIndexFromFileImage fails on a SIF without RootIndex.
Compare ==
    /\ pc = "compare"
    /\ \E ok \in BOOLEAN :
          IF ~ok \/ sifRoot = None
          THEN Return("err", "compare")
          ELSE IF SameRoot(sifRoot, ii)
               THEN Return("ok", None)
               ELSE /\ pc' = "enumerate"
                    /\ UNCHANGED << result, errPhase, blobCacheExists, cacheFiles >>
    /\ UNCHANGED << sifBlobObjs, sifRoot, sifBlobs, staged, cachedBlobs, keepBlobs,
                    ri, descs, delIdx, addIdx, mutLog, dirCreated >>
    /\ UNCHANGED << callVars, lazyVars >>

\* Lines 69-73 and sifBlobs(fi): the digests of all OCI.Blob descriptors.
Enumerate ==
    /\ pc = "enumerate"
    /\ \E ok \in BOOLEAN :
          IF ok
          THEN /\ pc' = "mkdir"
               /\ sifBlobs' = sifBlobObjs
               /\ UNCHANGED << result, errPhase, blobCacheExists, cacheFiles >>
          ELSE /\ Return("err", "enumerate")
               /\ UNCHANGED sifBlobs
    /\ UNCHANGED << sifBlobObjs, sifRoot, staged, cachedBlobs, keepBlobs,
                    ri, descs, delIdx, addIdx, mutLog, dirCreated >>
    /\ UNCHANGED << callVars, lazyVars >>

\* Lines 78-82: os.MkdirTemp, and the deferred removal is registered.
MkdirTemp ==
    /\ pc = "mkdir"
    /\ \E ok \in BOOLEAN :
          IF ok
          THEN /\ pc' = "stage"
               /\ blobCacheExists' = TRUE
               /\ dirCreated' = TRUE
               /\ UNCHANGED << result, errPhase, cacheFiles >>
          ELSE /\ Return("err", "mkdir")
               /\ UNCHANGED dirCreated
    /\ UNCHANGED << sifBlobObjs, sifRoot, sifBlobs, staged, cachedBlobs, keepBlobs,
                    ri, descs, delIdx, addIdx, mutLog >>
    /\ UNCHANGED << callVars, lazyVars >>

\* cacheIndexBlobs(ii, sifBlobs, blobCache), line 83: what the walk caches and skips.
Walk == cacheIndexBlobs(ii, sifBlobs)

\* writeCacheBlob (lines 282-299) for the next digest the walk caches: the
\* file named by the digest is created (or truncated) and written.
StageBlob ==
    /\ pc = "stage"
    /\ Len(staged) < Len(Walk.cached)
    /\ LET d == Walk.cached[Len(staged) + 1]
       IN  /\ staged' = Append(staged, d)
           /\ cacheFiles' = cacheFiles \cup {d}
    /\ UNCHANGED << sifBlobObjs, sifRoot, pc, sifBlobs, blobCacheExists, cachedBlobs,
                    keepBlobs, ri, descs, delIdx, addIdx, result, errPhase, mutLog,
                    dirCreated >>
    /\ UNCHANGED << callVars, lazyVars >>

\* Any error of the walk (IndexManifest, ImageIndex, Image, Layers, Digest,
\* Compressed, Manifest, RawConfigFile, RawManifest, writeCacheBlob) at any
\* point of it: lines 84-86.
StageFail ==
    /\ pc = "stage"
    /\ Return("err", "stage")
    /\ UNCHANGED << sifBlobObjs, sifRoot, sifBlobs, staged, cachedBlobs, keepBlobs,
                    ri, descs, delIdx, addIdx, mutLog, dirCreated >>
    /\ UNCHANGED << callVars, lazyVars >>

\* cacheIndexBlobs returns (line 222) and Update assigns cachedBlobs, keepBlobs.
CacheReturn ==
    /\ pc = "stage"
    /\ Len(staged) = Len(Walk.cached)
    /\ cachedBlobs' = Walk.cached
    /\ keepBlobs' = Walk.skipped
    /\ pc' = "serialize"
    /\ UNCHANGED << sifBlobObjs, sifRoot, sifBlobs, blobCacheExists, cacheFiles, staged,
                    ri, descs, delIdx, addIdx, result, errPhase, mutLog, dirCreated >>
    /\ UNCHANGED << callVars, lazyVars >>

\* Lines 88-92: ri, err := ii.RawManifest().
Serialize ==
    /\ pc = "serialize"
    /\ \E ok \in BOOLEAN :
          IF ok
          THEN /\ pc' = "delbegin"
               /\ ri' = ii
               /\ UNCHANGED << result, errPhase, blobCacheExists, cacheFiles >>
          ELSE /\ Return("err", "serialize")
               /\ UNCHANGED ri
    /\ UNCHANGED << sifBlobObjs, sifRoot, sifBlobs, staged, cachedBlobs, keepBlobs,
                    descs, delIdx, addIdx, mutLog, dirCreated >>
    /\ UNCHANGED << callVars, lazyVars >>

\* deleteBlobsExcept called while the walk is still caching.
DeleteBegin_Early ==
    /\ pc = "stage"
    /\ pc' = "delete"
    /\ descs' = sifBlobObjs
    /\ delIdx' = 1
    /\ UNCHANGED << result, errPhase, blobCacheExists, cacheFiles >>
    /\ UNCHANGED << sifBlobObjs, sifRoot, sifBlobs, staged, cachedBlobs, keepBlobs,
                    ri, addIdx, mutLog, dirCreated >>
    /\ UNCHANGED << callVars, lazyVars >>

\* deleteBlobsExcept, lines 315-318: fi.GetDescriptors.
DeleteBegin ==
    /\ pc = "delbegin"
    /\ \E ok \in BOOLEAN :
          IF ok
          THEN /\ pc' = "delete"
               /\ descs' = sifBlobObjs
               /\ delIdx' = 1
               /\ UNCHANGED << result, errPhase, blobCacheExists, cacheFiles >>
          ELSE /\ Return("err", "delete")
               /\ UNCHANGED << descs, delIdx >>
    /\ UNCHANGED << sifBlobObjs, sifRoot, sifBlobs, staged, cachedBlobs, keepBlobs,
                    ri, addIdx, mutLog, dirCreated >>
    /\ UNCHANGED << callVars, lazyVars >>

\* The test of line 324 that keeps every descriptor.
KeepBlob_All(keepDigests, dd) == TRUE

\* Line 324: the descriptor is left alone when its digest is in keepDigests.
KeepBlob(keepDigests, dd) == Contains(keepDigests, dd)

\* deleteBlobsExcept, lines 319-330: one descriptor of descs. The descriptors
\* before it were kept or deleted, so it is object number
\* delIdx - (deleted so far) of the SIF.
DeleteStep ==
    /\ pc = "delete"
    /\ delIdx <= Len(descs)
    /\ LET dd  == descs[delIdx]
           pos == delIdx - (Len(descs) - Len(sifBlobObjs))
       IN  \E ok \in BOOLEAN :
              IF ~ok
              THEN /\ Return("err", "delete")
                   /\ UNCHANGED << sifBlobObjs, delIdx, mutLog >>
              ELSE /\ delIdx' = delIdx + 1
                   /\ UNCHANGED << pc, result, errPhase, blobCacheExists, cacheFiles >>
                   /\ IF KeepBlob(keepBlobs, dd)
                      THEN UNCHANGED << sifBlobObjs, mutLog >>
                      ELSE /\ sifBlobObjs' = RemoveAt(sifBlobObjs, pos)
                           /\ mutLog' = Append(mutLog, [op |-> "delete", digest |-> dd])
    /\ UNCHANGED << sifRoot, sifBlobs, staged, cachedBlobs, keepBlobs, ri, descs,
                    addIdx, dirCreated >>
    /\ UNCHANGED << callVars, lazyVars >>

\* deleteBlobsExcept returns nil (line 331).
DeleteDone ==
    /\ pc = "delete"
    /\ delIdx > Len(descs)
    /\ pc' = "delroot"
    /\ UNCHANGED << sifBlobObjs, sifRoot, sifBlobs, blobCacheExists, cacheFiles, staged,
                    cachedBlobs, keepBlobs, ri, descs, delIdx, addIdx, result, errPhase,
                    mutLog, dirCreated >>
    /\ UNCHANGED << callVars, lazyVars >>

\* deleteRootIndex, lines 335-341, called at line 99.
DeleteRootIndex ==
    /\ pc = "delroot"
    /\ \E ok \in BOOLEAN :
          IF ok /\ sifRoot # None
          THEN /\ pc' = "add"
               /\ addIdx' = 1
               /\ mutLog' = Append(mutLog, [op |-> "deleteRoot", digest |-> sifRoot])
               /\ sifRoot' = None
               /\ UNCHANGED << result, errPhase, blobCacheExists, cacheFiles >>
          ELSE /\ Return("err", "delroot")
               /\ UNCHANGED << sifRoot, addIdx, mutLog >>
    /\ UNCHANGED << sifBlobObjs, sifBlobs, staged, cachedBlobs, keepBlobs, ri, descs,
                    delIdx, dirCreated >>
    /\ UNCHANGED << callVars, lazyVars >>

\* Lines 105-116: one blob of cachedBlobs. readCacheBlob fails when the file
\* is not in blobCache; rc.Close can fail after the object was written.
AddBlob ==
    /\ pc = "add"
    /\ addIdx <= Len(cachedBlobs)
    /\ LET b == cachedBlobs[addIdx]
       IN  \E outcome \in {"ok", "readError", "writeError", "closeError"} :
              IF outcome \in {"readError", "writeError"} \/ b \notin cacheFiles
              THEN /\ Return("err", "add")
                   /\ UNCHANGED << sifBlobObjs, addIdx, mutLog >>
              ELSE /\ sifBlobObjs' = writeBlob(sifBlobObjs, b)
                   /\ mutLog' = Append(mutLog, [op |-> "add", digest |-> b])
                   /\ IF outcome = "closeError"
                      THEN /\ Return("err", "add")
                           /\ UNCHANGED addIdx
                      ELSE /\ addIdx' = addIdx + 1
                           /\ UNCHANGED << pc, result, errPhase, blobCacheExists,
                                           cacheFiles >>
    /\ UNCHANGED << sifRoot, sifBlobs, staged, cachedBlobs, keepBlobs, ri, descs,
                    delIdx, dirCreated >>
    /\ UNCHANGED << callVars, lazyVars >>

\* The RootIndex written as soon as the loop is entered.
LoopDone_Early == addIdx >= 1

\* Lines 105, 118: the loop over cachedBlobs is over.
LoopDone == addIdx > Len(cachedBlobs)

\* Line 119: f.writeBlobToFileImage(bytes.NewReader(ri), true).
AddRoot ==
    /\ pc = "add"
    /\ LoopDone
    /\ \E ok \in BOOLEAN :
          IF ok
          THEN /\ sifRoot' = ri
               /\ mutLog' = Append(mutLog, [op |-> "addRoot", digest |-> ri])
               /\ Return("ok", None)
          ELSE /\ Return("err", "addroot")
               /\ UNCHANGED << sifRoot, mutLog >>
    /\ UNCHANGED << sifBlobObjs, sifBlobs, staged, cachedBlobs, keepBlobs, ri, descs,
                    delIdx, addIdx, dirCreated >>
    /\ UNCHANGED << callVars, lazyVars >>

-----------------------------------------------------------------------------
\* pkg/mutate: the lazy image.

\* Number of layers of a base image, at most.
MaxLayers == 2

\* v1.Layer values: a digest (compressed) and a diff-ID (uncompressed).
\* LayerC is LayerA's content compressed differently.
Layer(digest, diffID) == [Digest |-> digest, DiffID |-> diffID]

LayerA == Layer("sha256:dA", "sha256:uA")
LayerB == Layer("sha256:dB", "sha256:uB")
LayerC == Layer("sha256:dC", "sha256:uA")

\* The nil v1.Layer of an empty override slot.
NilLayer == Layer("nil", "nil")

BaseLayers == { LayerA, LayerB }

OverrideLayers == { NilLayer, LayerC }

\* The hashes LayerByDigest and LayerByDiffID are asked for.
Hashes == { "sha256:dA", "sha256:dC", "sha256:uA", "sha256:zz" }

SeqsUpTo(S, n) == UNION { [1..k -> S] : k \in 0..n }

\* partial.Descriptor(l)
LayerDescriptor(l) == [MediaType |-> "application/vnd.oci.image.layer.v1.tar+gzip",
                       Digest |-> l.Digest]

\* *v1.History records.
NoHistory == "none"
BaseHistory == << "base step 1", "base step 2" >>

\* Serialized config bytes: what json.Marshal writes for a config file (enc
\* "go"), or the bytes a base image was built with (any other enc).
ConfigBytes(enc, cf) == [enc |-> enc, diffIDs |-> cf.RootFS.DiffIDs, history |-> cf.History]

\* manifest.Config.Data == nil
NoData == [enc |-> "nil", diffIDs |-> << >>, history |-> << >>]

\* json.Marshal(configFile)
Marshal(cf) == ConfigBytes("go", cf)

ByteLen(bytes) ==
    Len(bytes.enc) + 64 * Len(bytes.diffIDs) + Len(bytes.history)

\* v1.SHA256: the digest and the size of the bytes.
SHA256(bytes) == [Digest |-> [alg |-> "sha256", of |-> bytes], Size |-> ByteLen(bytes)]

ConfigFileOf(ls) == [RootFS |-> [DiffIDs |-> [i \in DOMAIN ls |-> ls[i].DiffID]],
                     History |-> BaseHistory]

\* A base image over the layers ls, whose config was serialized as enc and
\* is or is not carried inline in the manifest.
BaseImage(ls, enc, inline) ==
    LET cf    == ConfigFileOf(ls)
        bytes == ConfigBytes(enc, cf)
    IN  [ configFile |-> cf,
          manifest   |-> [ Config |-> [ Digest |-> SHA256(bytes).Digest,
                                        Size   |-> SHA256(bytes).Size,
                                        Data   |-> IF inline THEN bytes ELSE NoData ],
                           Layers |-> [i \in DOMAIN ls |-> LayerDescriptor(ls[i])] ],
          layers     |-> ls ]

BaseImages ==
    { BaseImage(ls, enc, inline) :
        ls \in SeqsUpTo(BaseLayers, MaxLayers) \ { << >> },
        enc \in { "go", "other" },
        inline \in BOOLEAN }

\* The zero value of the memoized fields (lines 23-28).
EmptyMap == [h \in {} |-> NilLayer]

NilManifest == [ Config |-> [Digest |-> [alg |-> "nil", of |-> NoData], Size |-> 0,
                             Data |-> NoData],
                 Layers |-> << >> ]

NilConfigFile == [RootFS |-> [DiffIDs |-> << >>], History |-> << >>]

NewImage == [ computed   |-> FALSE,
              diffIDs    |-> << >>,
              byDiffID   |-> EmptyMap,
              byDigest   |-> EmptyMap,
              manifest   |-> NilManifest,
              configFile |-> NilConfigFile ]

\* m[k] = v in a Go map.
MapPut(m, k, v) == [x \in (DOMAIN m) \cup {k} |-> IF x = k THEN v ELSE m[x]]

\* Errors.
NoErr == "nil"
ErrLayerNotFound == "layer not found"
Panic == "panic: index out of range"
PassErrors == { "ConfigFile error", "Manifest error", "Layers error", "Descriptor error",
                "DiffID error", "Marshal error", "SHA256 error" }

\* Where a compute pass may be made to fail: nowhere, at one of the calls
\* outside the loop, or at partial.Descriptor or l.DiffID of slot idx.
NoFailure == [step |-> "none", idx |-> 0]

Failures(ovr) ==
    { NoFailure }
    \cup { [step |-> st, idx |-> 0] : st \in {"ConfigFile", "Manifest", "Layers", "Marshal", "SHA256"} }
    \cup { [step |-> st, idx |-> i] : st \in {"Descriptor", "DiffID"}, i \in DOMAIN ovr }

\* Lines 59-83: the loop over img.overrides, from empty accumulators. The
\* result carries the accumulators and the error (or panic) that ended it.
OverrideLoop(ls, ovr, fail) ==
    LET loop[i \in 0..Len(ovr)] ==
            IF i = 0
            THEN [ layers |-> << >>, diffIDs |-> << >>, byDiffID |-> EmptyMap,
                   byDigest |-> EmptyMap, err |-> NoErr ]
            ELSE LET acc == loop[i - 1]
                 IN  IF acc.err # NoErr THEN acc
                     ELSE IF ovr[i] = NilLayer /\ i > Len(ls)
                     THEN [acc EXCEPT !.err = Panic]
                     ELSE LET l == IF ovr[i] = NilLayer THEN ls[i] ELSE ovr[i]
                              d == LayerDescriptor(l)
                          IN  IF fail = [step |-> "Descriptor", idx |-> i]
                              THEN [acc EXCEPT !.err = "Descriptor error"]
                              ELSE IF fail = [step |-> "DiffID", idx |-> i]
                              THEN [acc EXCEPT !.err = "DiffID error"]
                              ELSE [ layers   |-> Append(acc.layers, d),
                                     diffIDs  |-> Append(acc.diffIDs, l.DiffID),
                                     byDiffID |-> MapPut(acc.byDiffID, l.DiffID, l),
                                     byDigest |-> MapPut(acc.byDigest, d.Digest, l),
                                     err      |-> NoErr ]
    IN  loop[Len(ovr)]

\* The history replaced whether or not there is a replacement.
SetHistory_Always(cf, hist) == [cf EXCEPT !.History = << hist >>]

\* Lines 89-91: if img.history != nil, the history is that one entry.
SetHistory(cf, hist) ==
    IF hist # NoHistory THEN [cf EXCEPT !.History = << hist >>] ELSE cf

\* The config descriptor left with the digest it had.
SetConfig_KeepDigest(m, config, sum) ==
    [m EXCEPT !.Config.Size = sum.Size,
              !.Config.Data = IF m.Config.Data # NoData THEN config ELSE m.Config.Data]

\* Lines 102-107: the digest and the size of the config descriptor, and its
\* inline data if it has any.
SetConfig(m, config, sum) ==
    [m EXCEPT !.Config.Digest = sum.Digest,
              !.Config.Size = sum.Size,
              !.Config.Data = IF m.Config.Data # NoData THEN config ELSE m.Config.Data]

\* What populate leaves: the memoized fields, the error it returns and the
\* number of base accessors it called.
Outcome(im, err, n) == [img |-> im, err |-> err, baseCalls |-> n]

\* populate that sets img.computed before the pass has succeeded.
populate_EarlyCommit(im, b, ovr, hist, fail) ==
    IF im.computed THEN Outcome(im, NoErr, 0)
    ELSE IF fail.step = "ConfigFile" THEN Outcome([im EXCEPT !.computed = TRUE], "ConfigFile error", 1)
    ELSE IF fail.step = "Manifest" THEN Outcome([im EXCEPT !.computed = TRUE], "Manifest error", 2)
    ELSE Outcome([im EXCEPT !.computed = TRUE], IF fail = NoFailure THEN NoErr ELSE "Layers error", 3)

\* populate without the test of img.computed (lines 38-40).
populate_NoCheck(im, b, ovr, hist, fail) ==
    IF fail.step = "ConfigFile" THEN Outcome(im, "ConfigFile error", 1)
    ELSE Outcome([im EXCEPT !.computed = TRUE], NoErr, 3)

\* populate (lines 34-117), under img's lock from its first to its last line.
populate(im, b, ovr, hist, fail) ==
    IF im.computed THEN Outcome(im, NoErr, 0)
    ELSE IF fail.step = "ConfigFile" THEN Outcome(im, "ConfigFile error", 1)
    ELSE IF fail.step = "Manifest" THEN Outcome(im, "Manifest error", 2)
    ELSE IF fail.step = "Layers" THEN Outcome(im, "Layers error", 3)
    ELSE
      LET acc == OverrideLoop(b.layers, ovr, fail)
          \* configFile.DeepCopy() and manifest.DeepCopy(), then lines 85-107
          configFile == SetHistory([b.configFile EXCEPT !.RootFS.DiffIDs = acc.diffIDs], hist)
          config   == Marshal(configFile)
          sum      == SHA256(config)
          manifest == SetConfig([b.manifest EXCEPT !.Layers = acc.layers], config, sum)
      IN  IF acc.err # NoErr THEN Outcome(im, acc.err, 3)
          ELSE IF fail.step = "Marshal" THEN Outcome(im, "Marshal error", 3)
          ELSE IF fail.step = "SHA256" THEN Outcome(im, "SHA256 error", 3)
          ELSE Outcome([ computed   |-> TRUE,
                         diffIDs    |-> acc.diffIDs,
                         byDiffID   |-> acc.byDiffID,
                         byDigest   |-> acc.byDigest,
                         manifest   |-> manifest,
                         configFile |-> configFile ], NoErr, 3)

\* populate that writes lines 85-107 into base's own config file and manifest,
\* not into copies of them.
populateBase_NoDeepCopy(im, b, ovr, hist, fail) ==
    IF im.computed \/ fail.step \in {"ConfigFile", "Manifest", "Layers"} THEN b
    ELSE
      LET acc == OverrideLoop(b.layers, ovr, fail)
          out == populate(im, b, ovr, hist, NoFailure).img
      IN  IF acc.err # NoErr THEN b
          ELSE IF fail.step \in {"Marshal", "SHA256"}
          THEN [b EXCEPT !.configFile = out.configFile, !.manifest.Layers = acc.layers]
          ELSE [b EXCEPT !.configFile = out.configFile, !.manifest = out.manifest]

\* What a call of populate leaves of the base image: lines 42-57 read it,
\* lines 46 and 52 copy its config file and its manifest (DeepCopy), and
\* lines 85-107 write to the copies only.
populateBase(im, b, ovr, hist, fail) == b

\* json.Marshal(img.manifest)
MarshalManifest(m) == [enc |-> "go", manifest |-> m]

ManifestLen(m) == ByteLen(m.Config.Data) + Len(m.Layers) + m.Config.Size

\* The accessors that call populate (lines 125-235), with the hash asked for.
Accessor(name, h) == [name |-> name, arg |-> h]

Accessors ==
    { Accessor(n, "") : n \in { "Size", "Digest", "Manifest", "RawManifest", "ConfigName",
                                "ConfigFile", "RawConfigFile", "Layers" } }
    \cup { Accessor(n, h) : n \in { "LayerByDigest", "LayerByDiffID" }, h \in Hashes }

\* A lookup that reports a missing hash as a failed pass does.
Lookup_GenericError(m, h) ==
    IF h \in DOMAIN m THEN [val |-> m[h], err |-> NoErr]
    ELSE [val |-> NilLayer, err |-> "Layers error"]

\* Lines 217-221 and 230-234: the layer in the map, or errLayerNotFound.
Lookup(m, h) ==
    IF h \in DOMAIN m THEN [val |-> m[h], err |-> NoErr]
    ELSE [val |-> NilLayer, err |-> ErrLayerNotFound]

\* What an accessor returns once populate has returned nil, from the
\* memoized fields.
Read(a, im) ==
    CASE a.name = "Size"          -> [val |-> ManifestLen(im.manifest), err |-> NoErr]
      [] a.name = "Digest"        -> [val |-> [alg |-> "sha256", of |-> MarshalManifest(im.manifest)],
                                      err |-> NoErr]
      [] a.name = "Manifest"      -> [val |-> im.manifest, err |-> NoErr]
      [] a.name = "RawManifest"   -> [val |-> MarshalManifest(im.manifest), err |-> NoErr]
      [] a.name = "ConfigName"    -> [val |-> SHA256(Marshal(im.configFile)).Digest, err |-> NoErr]
      [] a.name = "ConfigFile"    -> [val |-> im.configFile, err |-> NoErr]
      [] a.name = "RawConfigFile" -> [val |-> Marshal(im.configFile), err |-> NoErr]
      [] a.name = "Layers"        -> [val |-> [i \in DOMAIN im.diffIDs |->
                                                  Lookup(im.byDiffID, im.diffIDs[i]).val],
                                      err |-> NoErr]
      [] a.name = "LayerByDigest" -> Lookup(im.byDigest, a.arg)
      [] a.name = "LayerByDiffID" -> Lookup(im.byDiffID, a.arg)

\* An accessor is called and calls populate (the first lines of Size,
\* Digest, ..., LayerByDiffID). When populate returns an error or panics, so
\* does the accessor, whichever it is. A pass that is not run cannot fail.
CallPopulate ==
    /\ lpc = "idle"
    /\ \E fail \in (IF img.computed THEN { NoFailure } ELSE Failures(overrides)) :
          LET out == populate(img, base, overrides, history, fail)
          IN  /\ img' = out.img
              /\ baseCalls' = out.baseCalls
              /\ base' = populateBase(img, base, overrides, history, fail)
              /\ IF out.err = NoErr
                 THEN /\ lpc' = "read"
                      /\ UNCHANGED << lastCall, lastResult, everFailed >>
                 ELSE /\ lpc' = "idle"
                      /\ lastCall' = Accessor("none", "")
                      /\ lastResult' = [val |-> "none", err |-> out.err]
                      /\ everFailed' = TRUE
    /\ UNCHANGED << overrides, history >>
    /\ UNCHANGED << updateVars, concVars, shareVars >>

\* populate returned nil to the accessor a, which reads the memoized fields
\* and returns.
ReadMemoized(a) ==
    /\ lpc = "read"
    /\ lpc' = "idle"
    /\ lastCall' = a
    /\ lastResult' = Read(a, img)
    /\ UNCHANGED << base, overrides, history, img, baseCalls, everFailed >>
    /\ UNCHANGED << updateVars, concVars, shareVars >>

\* MediaType (lines 120-122): img.base.MediaType(), without populate.
MediaType ==
    /\ lpc = "idle"
    /\ lastCall' = Accessor("MediaType", "")
    /\ lastResult' = [val |-> OCIManifestSchema1, err |-> NoErr]
    /\ baseCalls' = 0
    /\ UNCHANGED << base, overrides, history, img, lpc, everFailed >>
    /\ UNCHANGED << updateVars, concVars, shareVars >>

-----------------------------------------------------------------------------
\* pkg/mutate: goroutines that call the accessors of one lazy image
\* concurrently. populate is cut at its lock, at the pass and at the
\* assignments of lines 109-114; the accessor reads the memoized fields after
\* populate has returned, outside the lock.

\* Number of goroutines.
MaxCallers == 2

Callers == 1..MaxCallers

NoOne == 0

NoResult == [val |-> "none", err |-> NoErr]

\* The accessors the goroutines call.
ConcAccessors == { Accessor("Manifest", ""), Accessor("Layers", ""),
                   Accessor("LayerByDiffID", "sha256:uA") }

\* A goroutine calls the accessor a, which calls populate (the first line of
\* lines 125-235) and reaches img.Lock().
Invoke(c, a) ==
    /\ cpc[c] = "idle"
    /\ cpc' = [cpc EXCEPT ![c] = "lock"]
    /\ ccall' = [ccall EXCEPT ![c] = a]
    /\ cres' = [cres EXCEPT ![c] = NoResult]
    /\ UNCHANGED << cerr, mutex, pend, nSuccess, base, overrides, history, img >>
    /\ UNCHANGED << updateVars, seqVars, shareVars >>

\* A mutex that never blocks.
LockFree_Always == TRUE

\* Line 35: img.Lock() returns only while no goroutine holds the mutex.
LockFree == mutex = NoOne

Lock(c) ==
    /\ cpc[c] = "lock"
    /\ LockFree
    /\ mutex' = c
    /\ cpc' = [cpc EXCEPT ![c] = "pass"]
    /\ UNCHANGED << ccall, cres, cerr, pend, nSuccess, base, overrides, history, img >>
    /\ UNCHANGED << updateVars, seqVars, shareVars >>

\* Lines 38-107: the test of img.computed and the pass, into locals.
Pass(c) ==
    /\ cpc[c] = "pass"
    /\ \E fail \in (IF img.computed THEN { NoFailure } ELSE Failures(overrides)) :
          LET out == populate(img, base, overrides, history, fail)
          IN  /\ base' = populateBase(img, base, overrides, history, fail)
              /\ IF img.computed \/ out.err # NoErr
                 THEN /\ cerr' = [cerr EXCEPT ![c] = out.err]
                      /\ cpc' = [cpc EXCEPT ![c] = "unlock"]
                      /\ UNCHANGED pend
                 ELSE /\ pend' = [pend EXCEPT ![c] = out.img]
                      /\ cpc' = [cpc EXCEPT ![c] = "commit"]
                      /\ UNCHANGED cerr
    /\ UNCHANGED << ccall, cres, mutex, nSuccess, overrides, history, img >>
    /\ UNCHANGED << updateVars, seqVars, shareVars >>

\* Line 109: img.computed = true.
CommitComputed(c) ==
    /\ cpc[c] = "commit"
    /\ img' = [img EXCEPT !.computed = TRUE]
    /\ cpc' = [cpc EXCEPT ![c] = "fields"]
    /\ UNCHANGED << ccall, cres, cerr, mutex, pend, nSuccess, base, overrides, history >>
    /\ UNCHANGED << updateVars, seqVars, shareVars >>

\* Lines 110-116: the other memoized fields, and return nil.
CommitFields(c) ==
    /\ cpc[c] = "fields"
    /\ img' = pend[c]
    /\ pend' = [pend EXCEPT ![c] = NewImage]
    /\ cerr' = [cerr EXCEPT ![c] = NoErr]
    /\ nSuccess' = nSuccess + 1
    /\ cpc' = [cpc EXCEPT ![c] = "unlock"]
    /\ UNCHANGED << ccall, cres, mutex, base, overrides, history >>
    /\ UNCHANGED << updateVars, seqVars, shareVars >>

\* Line 36: the deferred img.Unlock(), and populate returns to the accessor,
\* which returns the error if there is one.
Unlock(c) ==
    /\ cpc[c] = "unlock"
    /\ mutex' = NoOne
    /\ IF cerr[c] = NoErr
       THEN /\ cpc' = [cpc EXCEPT ![c] = "read"]
            /\ UNCHANGED cres
       ELSE /\ cpc' = [cpc EXCEPT ![c] = "idle"]
            /\ cres' = [cres EXCEPT ![c] = [val |-> "none", err |-> cerr[c]]]
    /\ cerr' = [cerr EXCEPT ![c] = NoErr]
    /\ UNCHANGED << ccall, pend, nSuccess, base, overrides, history, img >>
    /\ UNCHANGED << updateVars, seqVars, shareVars >>

\* The accessor reads the memoized fields (lines 148, 157, ..., 234) and
\* returns.
ReadFields(c) ==
    /\ cpc[c] = "read"
    /\ cres' = [cres EXCEPT ![c] = Read(ccall[c], img)]
    /\ cpc' = [cpc EXCEPT ![c] = "idle"]
    /\ UNCHANGED << ccall, cerr, mutex, pend, nSuccess, base, overrides, history, img >>
    /\ UNCHANGED << updateVars, seqVars, shareVars >>

-----------------------------------------------------------------------------
\* pkg/mutate: two lazy images over one base image.

\* An accessor of the first lazy image calls populate.
AccessFirst ==
    /\ \E fail \in (IF img.computed THEN { NoFailure } ELSE Failures(overrides)) :
          /\ img' = populate(img, base, overrides, history, fail).img
          /\ base' = populateBase(img, base, overrides, history, fail)
    /\ UNCHANGED << overrides, history, shareVars >>
    /\ UNCHANGED << updateVars, seqVars, concVars >>

\* An accessor of the second lazy image calls populate.
AccessSecond ==
    /\ \E fail \in (IF img2.computed THEN { NoFailure } ELSE Failures(overrides2)) :
          /\ img2' = populate(img2, base, overrides2, history2, fail).img
          /\ base' = populateBase(img2, base, overrides2, history2, fail)
    /\ UNCHANGED << overrides, history, img, overrides2, history2, base0 >>
    /\ UNCHANGED << updateVars, seqVars, concVars >>

-----------------------------------------------------------------------------
\* The initial states and the specifications.

\* No Update call is under way.
UpdateIdle ==
    /\ pc = "idle"
    /\ ii = None
    /\ sifBlobs = << >>
    /\ blobCacheExists = FALSE
    /\ cacheFiles = {}
    /\ staged = << >>
    /\ cachedBlobs = << >>
    /\ keepBlobs = << >>
    /\ ri = None
    /\ descs = << >>
    /\ delIdx = 0
    /\ addIdx = 0
    /\ result = "none"
    /\ errPhase = None
    /\ calls = 0
    /\ blobs0 = << >>
    /\ root0 = None
    /\ mutLog = << >>
    /\ dirCreated = FALSE
    /\ prevTarget = None
    /\ prevResult = "none"
    /\ prevLog = << >>

\* A lazy image as NewLazyImage leaves it, no accessor called yet.
LazyIdle(b, ovr, hist) ==
    /\ base = b
    /\ overrides = ovr
    /\ history = hist
    /\ img = NewImage
    /\ lastCall = Accessor("none", "")
    /\ lastResult = [val |-> "none", err |-> NoErr]
    /\ baseCalls = 0
    /\ lpc = "idle"
    /\ everFailed = FALSE

\* No goroutine has called an accessor.
ConcIdle ==
    /\ cpc = [c \in Callers |-> "idle"]
    /\ ccall = [c \in Callers |-> Accessor("none", "")]
    /\ cres = [c \in Callers |-> NoResult]
    /\ cerr = [c \in Callers |-> NoErr]
    /\ mutex = NoOne
    /\ pend = [c \in Callers |-> NewImage]
    /\ nSuccess = 0

\* A second lazy image over base, no accessor called yet.
ShareIdle(ovr, hist) ==
    /\ img2 = NewImage
    /\ overrides2 = ovr
    /\ history2 = hist
    /\ base0 = base

\* A SIF that holds a root index, the blobs it reaches, and possibly blobs
\* it does not reach.
Init ==
    /\ \E r \in Targets, extra \in SUBSET (StaleDigests \cup {"L2"}) :
          /\ sifRoot = r
          /\ sifBlobObjs = SetToSeq(ReachableFrom(r) \cup extra)
    /\ UpdateIdle
    /\ LazyIdle(BaseImage(<< LayerA >>, "go", FALSE), << NilLayer >>, NoHistory)
    /\ ConcIdle
    /\ ShareIdle(<< NilLayer >>, NoHistory)

\* A lazy image over any base image, with any overrides and history.
LazyInit ==
    /\ sifRoot = "R1"
    /\ sifBlobObjs = SetToSeq(ReachableFrom("R1"))
    /\ UpdateIdle
    /\ \E b \in BaseImages, ovr \in SeqsUpTo(OverrideLayers, MaxLayers + 1),
          hist \in { NoHistory, "new step" } :
          LazyIdle(b, ovr, hist)
    /\ ConcIdle
    /\ ShareIdle(<< >>, NoHistory)

\* A lazy image with one override list entry per base layer, shared by the
\* goroutines.
ConcInit ==
    /\ sifRoot = "R1"
    /\ sifBlobObjs = SetToSeq(ReachableFrom("R1"))
    /\ UpdateIdle
    /\ \E ovr \in { << NilLayer, NilLayer >>, << LayerC, NilLayer >> } :
          LazyIdle(BaseImage(<< LayerA, LayerB >>, "go", TRUE), ovr, "new step")
    /\ ConcIdle
    /\ ShareIdle(<< >>, NoHistory)

ConcNext ==
    \/ \E c \in Callers, a \in ConcAccessors : Invoke(c, a)
    \/ \E c \in Callers : Lock(c)
    \/ \E c \in Callers : Pass(c)
    \/ \E c \in Callers : CommitComputed(c)
    \/ \E c \in Callers : CommitFields(c)
    \/ \E c \in Callers : Unlock(c)
    \/ \E c \in Callers : ReadFields(c)

ConcSpec == ConcInit /\ [][ConcNext]_vars

\* Two lazy images over any base image whose config another encoder wrote,
\* each with any overrides and history.
ShareInit ==
    /\ sifRoot = "R1"
    /\ sifBlobObjs = SetToSeq(ReachableFrom("R1"))
    /\ UpdateIdle
    /\ \E b \in BaseImages, ovr \in SeqsUpTo(OverrideLayers, MaxLayers),
          hist \in { NoHistory, "new step" } :
          /\ b.manifest.Config.Digest.of.enc = "other"
          /\ LazyIdle(b, ovr, hist)
    /\ ConcIdle
    /\ \E ovr \in SeqsUpTo(OverrideLayers, MaxLayers), hist \in { NoHistory, "newer step" } :
          ShareIdle(ovr, hist)

ShareNext ==
    \/ AccessFirst
    \/ AccessSecond

ShareSpec == ShareInit /\ [][ShareNext]_vars

LazyNext ==
    \/ CallPopulate
    \/ \E a \in Accessors : ReadMemoized(a)
    \/ MediaType

LazySpec == LazyInit /\ [][LazyNext]_vars

Next ==
    \/ \E t \in Targets : Call(t)
    \/ Options
    \/ Compare
    \/ Enumerate
    \/ MkdirTemp
    \/ StageBlob
    \/ StageFail
    \/ CacheReturn
    \/ Serialize
    \/ DeleteBegin
    \/ DeleteStep
    \/ DeleteDone
    \/ DeleteRootIndex
    \/ AddBlob
    \/ AddRoot

Spec == Init /\ [][Next]_vars

-----------------------------------------------------------------------------
\* What the claims about Update speak of.

StoreDigests == SeqToSet(sifBlobObjs)

InCall == calls > 0

Returned == pc = "done"

Succeeded == Returned /\ result = "ok"

\* The mutations of the current call of one kind, as the digests they touched.
LogOf(op) == SelectSeq(mutLog, LAMBDA m : m.op = op)

Logged(op, d) == \E i \in DOMAIN mutLog : mutLog[i].op = op /\ mutLog[i].digest = d

StoreUnchanged == sifBlobObjs = blobs0 /\ sifRoot = root0

StoreMatchesTarget == StoreDigests = ReachableFrom(ii) /\ sifRoot = ii

C2_NoDanglingRoot == (sifRoot # None) => (ReachableFrom(sifRoot) \subseteq StoreDigests)

\* C3: the new root index is the last store mutation of a call; when it is
\* added every staged blob has been added to the store, and it is not added
\* when an addition failed.
C3_RootAddedLast ==
    /\ \A i \in DOMAIN mutLog :
          mutLog[i].op = "addRoot" =>
             /\ i = Len(mutLog)
             /\ Returned
             /\ [j \in 1..Len(staged) |-> [op |-> "add", digest |-> staged[j]]] = LogOf("add")
             /\ SeqToSet(staged) \subseteq StoreDigests
             /\ sifRoot = ii
    /\ (Returned /\ errPhase = "add") => LogOf("addRoot") = << >>
    /\ (InCall /\ sifRoot # root0 /\ sifRoot # None) => LogOf("addRoot") # << >>

\* A call that added two or more staged blobs and then the root index.
C3_Witness ==
    /\ Len(mutLog) > 0
    /\ mutLog[Len(mutLog)].op = "addRoot"
    /\ Len(staged) >= 2

\* C4: when the first store mutation happens, every blob of the walk is
\* staged and the new root index is serialized; a call that fails in the
\* options, the digest comparison, the enumeration, the creation of the
\* cache, the staging or the serialization leaves the store as it was.
C4_StagedBeforeMutation ==
    /\ (InCall /\ mutLog # << >>) =>
          /\ staged = cacheIndexBlobs(ii, sifBlobs).cached
          /\ cachedBlobs = staged
          /\ SeqToSet(staged) \subseteq (cacheFiles \cup (IF Returned THEN SeqToSet(staged) ELSE {}))
          /\ ri = ii
    /\ (InCall /\ mutLog = << >>) => StoreUnchanged
    /\ (Returned /\ errPhase \in {"opts", "compare", "enumerate", "mkdir", "stage", "serialize"})
          => (mutLog = << >> /\ StoreUnchanged)

\* A call that failed while staging, after it had staged a blob.
C4_Witness ==
    /\ Returned
    /\ errPhase = "stage"
    /\ Len(staged) > 0
    /\ Len(blobs0) > 0

C6_StagedAtMostOnce ==
    \A d \in SeqToSet(staged) \cup SeqToSet(cachedBlobs) :
        /\ Count(staged, d) <= 1
        /\ Count(cachedBlobs, d) <= 1
        /\ Count(LogOf("add"), [op |-> "add", digest |-> d]) <= 1

\* C7: when Update has returned, the cache directory it created is gone.
C7_CacheRemoved == Returned => (~blobCacheExists /\ cacheFiles = {})

\* A call that created the cache, staged blobs, and failed while deleting.
C7_Witness ==
    /\ Returned
    /\ dirCreated
    /\ Len(staged) > 0
    /\ errPhase = "delete"

\* A blob of the store at the start of the call that the target reaches is
\* not staged, deleted or added, and the store holds it as before.
KeptInPlace ==
    \A d \in SeqToSet(blobs0) \cap ReachableFrom(ii) :
        /\ ~Contains(staged, d)
        /\ ~Logged("delete", d)
        /\ ~Logged("add", d)
        /\ Count(sifBlobObjs, d) = Count(blobs0, d)

NoStaleLeft == \A d \in SeqToSet(blobs0) \ ReachableFrom(ii) : d \notin StoreDigests

\* deleteBlobsExcept has returned without error in the current call.
DeletionCompleted ==
    \/ pc \in {"delroot", "add"}
    \/ Returned /\ errPhase \in {"delroot", "add", "addroot"}
    \/ Succeeded /\ root0 # ii

-----------------------------------------------------------------------------
\* What the claims about the lazy image speak of.

\* The step is a call of populate by some accessor.
PopulateStep ==
    /\ lpc = "idle"
    /\ \/ lpc' = "read"
       \/ lpc' = "idle" /\ lastResult'.err \in PassErrors \cup {Panic}

\* The step is a call of populate that returns an error of the compute pass.
FailedPopulateStep == lpc = "idle" /\ lpc' = "idle" /\ lastResult'.err \in PassErrors

\* The step is the return of an accessor that read the memoized fields.
ReadStep == lpc = "read" /\ lpc' = "idle"

\* The last accessor call returned what it read from the memoized fields.
HasRead == lpc = "idle" /\ lastCall.name \notin {"none", "MediaType"}

\* C9: once a compute pass has succeeded, no step changes a memoized field,
\* a later accessor call makes no call of base.ConfigFile, base.Manifest or
\* base.Layers, and an accessor called again returns what it returned before.
C9_ComputedOnce ==
    [][ img.computed =>
          /\ img' = img
          /\ PopulateStep => (baseCalls' = 0 /\ lpc' = "read")
          /\ (ReadStep /\ lastCall.name = lastCall'.name /\ lastCall.arg = lastCall'.arg)
                => lastResult' = lastResult
      ]_vars

\* An accessor was called after the pass had succeeded: it called no base
\* accessor and returned the layers.
C9_Witness ==
    /\ img.computed
    /\ HasRead
    /\ lastCall.name = "Layers"
    /\ Len(lastResult.val) > 0
    /\ baseCalls = 0

\* C10: a compute pass that fails changes no memoized field and leaves the
\* image uncomputed, with every memoized field at its zero value, and the
\* error is returned; the next accessor call on an uncomputed image runs the
\* pass from its first step, base.ConfigFile.
C10_FailureNotCached ==
    [][ /\ FailedPopulateStep => (img' = img /\ ~img'.computed)
        /\ (PopulateStep /\ ~img.computed) => baseCalls' >= 1
        /\ ~img.computed => (img = NewImage /\ (img' # img => img'.computed))
      ]_vars

\* A pass failed and a later pass succeeded.
C10_Witness ==
    /\ everFailed
    /\ img.computed
    /\ HasRead


-----------------------------------------------------------------------------
\* What the claims about concurrent callers speak of.

\* The goroutines inside a compute pass: past img.Lock(), before the
\* deferred img.Unlock().
Running == { c \in Callers : cpc[c] \in {"pass", "commit", "fields"} }

\* The goroutine has called an accessor that has returned.
CReturned(c) == cpc[c] = "idle" /\ ccall[c].name # "none"

\* Its accessor returned what it read in the memoized fields.
GotResult(c) == CReturned(c) /\ cres[c].err \notin PassErrors

\* populate has returned nil to the goroutine's accessor.
Served(c) == cpc[c] = "read" \/ GotResult(c)

\* No pass is between the first and the last assignment of lines 109-114.
FullyCommitted == img.computed /\ \A c \in Callers : cpc[c] # "fields"

OnePassAtATime == Cardinality(Running) <= 1

NoPartialRead == \A c \in Callers : cpc[c] = "read" => FullyCommitted

IdenticalResults ==
    /\ \A c \in Callers : GotResult(c) => cres[c] = Read(ccall[c], img)
    /\ \A c, d \in Callers :
          GotResult(c) /\ GotResult(d) /\ ccall[c] = ccall[d] => cres[c] = cres[d]

\* C11 as stated: among goroutines that call accessors of one lazy image
\* concurrently, at most one is inside a compute pass at any time; once every
\* goroutine has had an accessor return, exactly one pass has succeeded; a
\* goroutine reads the memoized fields only when a pass has assigned all of
\* them; and all results of the same accessor are the same.
C11_ExactlyOnePassSucceeds ==
    /\ OnePassAtATime
    /\ nSuccess <= 1
    /\ (\A c \in Callers : CReturned(c)) => nSuccess = 1
    /\ NoPartialRead
    /\ IdenticalResults

\* C11, amended: among goroutines that call accessors of one lazy image
\* concurrently, at most one is inside a compute pass at any time; at most one
\* pass ever succeeds, and exactly one has succeeded once populate has returned
\* nil to any goroutine; a goroutine reads the memoized fields only when a pass
\* has assigned all of them; and all results of the same accessor are the same.
C11_AtMostOnePassSucceeds ==
    /\ OnePassAtATime
    /\ nSuccess <= 1
    /\ (\E c \in Callers : Served(c)) => nSuccess = 1
    /\ NoPartialRead
    /\ IdenticalResults

\* Two goroutines were inside populate at once, one ran the pass, and both
\* got the result of the same accessor.
C11_Witness ==
    /\ nSuccess = 1
    /\ \E c, d \in Callers :
          /\ c # d
          /\ GotResult(c)
          /\ GotResult(d)
          /\ ccall[c] = ccall[d]
          /\ ccall[c].name = "Manifest"
-----------------------------------------------------------------------------
\* What the claims about the results of one lazy image speak of.

\* What the accessor called name returns, asked for the hash h.
Returns(name, h) == Read(Accessor(name, h), img)

LayersOf == Returns("Layers", "").val

DiffIDsOf == Returns("ConfigFile", "").val.RootFS.DiffIDs

ManifestOf == Returns("Manifest", "").val

\* The override list has one entry per base layer.
SameLength == Len(overrides) = Len(base.layers)

\* The override list has a layer at slot i and empty slots elsewhere.
OnlyOverride(i) ==
    /\ SameLength
    /\ i \in DOMAIN overrides
    /\ overrides[i] # NilLayer
    /\ \A j \in DOMAIN overrides : j # i => overrides[j] = NilLayer

\* C12: once the pass of a lazy image whose override list has L at slot i and
\* empty slots elsewhere has succeeded, Layers()[i] is L,
\* ConfigFile().RootFS.DiffIDs[i] is L's diff-ID, Layers()[j] and DiffIDs[j]
\* are the base's for every j other than i, and LayerByDiffID(L.DiffID()) and
\* LayerByDigest(L.Digest()) return L.
C12_LayerSubstitution ==
    \A i \in DOMAIN overrides :
        img.computed /\ OnlyOverride(i) =>
            LET L == overrides[i]
            IN  /\ DOMAIN LayersOf = DOMAIN overrides
                /\ LayersOf[i] = L
                /\ DiffIDsOf[i] = L.DiffID
                /\ \A j \in DOMAIN overrides : j # i =>
                      /\ LayersOf[j] = base.layers[j]
                      /\ DiffIDsOf[j] = base.configFile.RootFS.DiffIDs[j]
                /\ Returns("LayerByDiffID", L.DiffID) = [val |-> L, err |-> NoErr]
                /\ Returns("LayerByDigest", L.Digest) = [val |-> L, err |-> NoErr]

\* C13: a lazy image whose override list has fewer or more entries than the
\* base image has layers is rejected: no compute pass over it succeeds, no
\* accessor gets to read memoized fields built from it, and no accessor
\* crashes on it.
C13_MismatchRejected ==
    ~SameLength =>
        /\ ~img.computed
        /\ lpc # "read"
        /\ lastResult.err # Panic

\* The layers of the image under its overrides: the override where there is
\* one, the base layer where the slot is empty.
EffectiveLayers ==
    [i \in DOMAIN overrides |-> IF overrides[i] = NilLayer THEN base.layers[i] ELSE overrides[i]]

\* The config returned by ConfigFile() is the base's config with the diff-IDs
\* of the effective layers and, if there is a replacement, the replaced history.
ConfigReplaced ==
    LET cf == Returns("ConfigFile", "").val
    IN  /\ cf.RootFS.DiffIDs = [i \in DOMAIN overrides |-> EffectiveLayers[i].DiffID]
        /\ cf.History = IF history = NoHistory THEN base.configFile.History ELSE << history >>

\* C14: once the pass has succeeded, the config descriptor of Manifest() has
\* the hash and the length of the serialization of the config ConfigFile()
\* returns, which is the config after the diff-ID and history replacement; its
\* inline data are that serialization if the base manifest had inline data,
\* and absent if it had none.
C14_ConfigDescriptorCurrent ==
    img.computed =>
        LET bytes == Marshal(Returns("ConfigFile", "").val)
            desc  == ManifestOf.Config
        IN  /\ ConfigReplaced
            /\ bytes = Returns("RawConfigFile", "").val
            /\ desc.Digest = [alg |-> "sha256", of |-> bytes]
            /\ desc.Digest = Returns("ConfigName", "").val
            /\ desc.Size = ByteLen(bytes)
            /\ base.manifest.Config.Data # NoData => desc.Data = bytes
            /\ base.manifest.Config.Data = NoData => desc.Data = NoData

\* Manifest() has returned the manifest of an image with an override, a
\* replaced history and inline config data written by another encoder.
C14_Witness ==
    /\ HasRead
    /\ lastCall.name = "Manifest"
    /\ history # NoHistory
    /\ \E i \in DOMAIN overrides : overrides[i] # NilLayer
    /\ base.manifest.Config.Data # NoData
    /\ base.manifest.Config.Data.enc = "other"
    /\ lastResult.val.Config.Data = Marshal(img.configFile)

\* The digests and the diff-IDs of the effective layers.
EffectiveDigests == { EffectiveLayers[i].Digest : i \in DOMAIN overrides }

EffectiveDiffIDs == { EffectiveLayers[i].DiffID : i \in DOMAIN overrides }

NotFound == [val |-> NilLayer, err |-> ErrLayerNotFound]

\* C15: once the pass has succeeded, LayerByDigest(h) for an h that is the
\* digest of no effective layer, and LayerByDiffID(h) for an h that is the
\* diff-ID of none, return no layer and the not-found error, which is none of
\* the errors of a compute pass.
C15_UnknownLayerNotFound ==
    /\ ErrLayerNotFound \notin PassErrors \cup {NoErr, Panic}
    /\ img.computed =>
          \A h \in Hashes :
              /\ h \notin EffectiveDigests => Returns("LayerByDigest", h) = NotFound
              /\ h \notin EffectiveDiffIDs => Returns("LayerByDiffID", h) = NotFound
    /\ HasRead /\ lastCall.name = "LayerByDigest" /\ lastCall.arg \notin EffectiveDigests
          => lastResult = NotFound
    /\ HasRead /\ lastCall.name = "LayerByDiffID" /\ lastCall.arg \notin EffectiveDiffIDs
          => lastResult = NotFound

\* LayerByDigest has been asked for a hash that is the diff-ID of an
\* effective layer and the digest of none, and has returned not-found.
C15_Witness ==
    /\ HasRead
    /\ lastCall = Accessor("LayerByDigest", "sha256:uA")
    /\ "sha256:uA" \in EffectiveDiffIDs
    /\ lastResult.err = ErrLayerNotFound
    /\ lastResult.val = NilLayer

\* The override list has one entry per base layer and all of them are empty.
NoOverrides == SameLength /\ \A i \in DOMAIN overrides : overrides[i] = NilLayer

\* Manifest() and ConfigFile() return the layer descriptors, the diff-IDs and
\* the history of the base image.
SameAsBase ==
    /\ ManifestOf.Layers = base.manifest.Layers
    /\ DiffIDsOf = base.configFile.RootFS.DiffIDs
    /\ Returns("ConfigFile", "").val.History = base.configFile.History
    /\ Returns("ConfigFile", "").val = base.configFile

\* The config bytes the base image was built with are the bytes json.Marshal
\* writes for its config file.
BaseBytesCanonical == base.manifest.Config.Digest = SHA256(Marshal(base.configFile)).Digest

C17_LayersMatchManifest ==
    img.computed =>
        /\ DOMAIN LayersOf = DOMAIN ManifestOf.Layers
        /\ DOMAIN LayersOf = DOMAIN DiffIDsOf
        /\ \A i \in DOMAIN LayersOf :
              /\ LayersOf[i].Digest = ManifestOf.Layers[i].Digest
              /\ LayersOf[i].DiffID = DiffIDsOf[i]

-----------------------------------------------------------------------------
\* What the claim about the order of the staging pass speaks of.

IndexTypes == { DockerManifestList, OCIImageIndex }

ImageTypes == { DockerManifestSchema2, OCIManifestSchema1 }

\* The digests that are image indices, and the descriptors they list.
IndexDigests == { d \in Targets \cup SeqToSet(DigestOrder) : IndexManifests(d) # << >> }

ListedDescriptors == UNION { SeqToSet(IndexManifests(ix)) : ix \in IndexDigests }

\* The digests listed as image manifests, and those listed as nested indices.
ImageDigests == { desc.Digest : desc \in { x \in ListedDescriptors : x.MediaType \in ImageTypes } }

NestedIndexDigests == { desc.Digest : desc \in { x \in ListedDescriptors : x.MediaType \in IndexTypes } }

\* The layers of an image in manifest order and then its config, without
\* those the SIF already has.
NeededOfImage(im) ==
    SelectSeq(ImageLayers(im) \o << ImageConfig(im) >>, LAMBDA d : ~Contains(sifBlobs, d))

\* The digests added to the store so far, in order.
AddedDigests == [i \in DOMAIN LogOf("add") |-> LogOf("add")[i].digest]

\* C18: among the blobs staged so far, in staging order, each image manifest
\* comes right after the layers of that image (in manifest order) and then its
\* config, as far as they are staged at all, and each nested index comes after
\* every child it lists that is staged; the blobs added to the store so far
\* are the first of the staged ones, in the same order.
C18_ChildrenBeforeParents ==
    /\ \A p \in DOMAIN staged :
          /\ staged[p] \in ImageDigests =>
                LET needed == NeededOfImage(staged[p])
                IN  /\ p > Len(needed)
                    /\ SubSeq(staged, p - Len(needed), p - 1) = needed
          /\ staged[p] \in NestedIndexDigests =>
                \A desc \in SeqToSet(IndexManifests(staged[p])) :
                    ~Contains(sifBlobs, desc.Digest) =>
                        \E q \in 1..(p - 1) : staged[q] = desc.Digest
    /\ Len(AddedDigests) <= Len(staged)
    /\ AddedDigests = SubSeq(staged, 1, Len(AddedDigests))

\* Update has succeeded after staging and adding, in this order, the layer,
\* config and manifest of one image, the nested index that lists it, and the
\* three layers, config and manifest of another image.
C18_Witness ==
    /\ Succeeded
    /\ staged = << "L1", "K1", "M1", "E1", "L1", "L2", "L2", "K2", "M2" >>
    /\ AddedDigests = staged

-----------------------------------------------------------------------------
\* What the claim about lazy images over one base image speaks of.

\* What a lazy image over the base image as it was built returns once its
\* pass has succeeded, whatever other lazy images there are.
Alone(ovr, hist) == populate(NewImage, base0, ovr, hist, NoFailure).img

=============================================================================
